---- MODULE Spec2Model ----
(***************************************************************************)
(* Pair selection of get_baseline.py (select_pairs): the supermaster       *)
(* choice, the SEQ / SKIP / LONG / baseline network matrices, and the      *)
(* lists made from them.  One run of select_pairs is one behaviour: the    *)
(* baseline table and the parameter file are chosen in Init, and each      *)
(* block of select_pairs is one action; the LONG window search is stepped  *)
(* one loop iteration at a time.                                           *)
(***************************************************************************)
EXTENDS Integers, Sequences, FiniteSets, TLC

\* Largest number of scenes in an enumerated baseline table.
MaxN == 3

(***************************************************************************)
(* Dates.  A date is a calendar year and a day of the year (tm_yday); all  *)
(* dates of the table are midnights (strptime of a %Y%m%d string).         *)
(***************************************************************************)
IsLeap(y) == (y % 4 = 0) /\ ((y % 100 # 0) \/ (y % 400 = 0))

YearLen(y) == IF IsLeap(y) THEN 366 ELSE 365

\* datetime.toordinal: days since 0001-01-01, proleptic Gregorian.
Ordinal(d) ==
    LET p == d.year - 1
    IN  365 * p + (p \div 4) - (p \div 100) + (p \div 400) + d.jday

DateLT(a, b) == Ordinal(a) < Ordinal(b)

DateLE(a, b) == Ordinal(a) <= Ordinal(b)

\* (b - a).days for two midnights.
Days(a, b) == Ordinal(b) - Ordinal(a)

\* dt.datetime.strptime(str(int(year*1000 + jday)), '%Y%j'): a day of year past
\* the end of the year runs on into the next year.
StrpYj(y, jd) ==
    IF jd > YearLen(y) THEN [year |-> y + 1, jday |-> jd - YearLen(y)]
                       ELSE [year |-> y, jday |-> jd]

Abs(x) == IF x < 0 THEN -x ELSE x

Min(S) == CHOOSE x \in S : \A y \in S : x <= y

(***************************************************************************)
(* The parameter file.  prm is the dictionary load_PRM builds: a function  *)
(* from the keys written in the file to their values.  Numeric keys hold   *)
(* numbers; DATE_MASTER holds what load_PRM makes of a DATE key: a         *)
(* datetime, a number, or the string itself.                               *)
(***************************************************************************)
NumKeys == {"SEQ", "SKIP", "LONG", "LONG_START", "LONG_END",
            "BL_MODE", "BP_MAX", "DT_MIN", "DT_MAX"}

NoDate == [year |-> 0, jday |-> 0]

AsDate(d) == [kind |-> "date", date |-> d, val |-> 0]

AsNum(v) == [kind |-> "num", date |-> NoDate, val |-> v]

AsStr == [kind |-> "str", date |-> NoDate, val |-> 0]

\* load_PRM(prm_file, var_in) is None
IsNone(p, var_in) == var_in \notin DOMAIN p

\* bool(load_PRM(prm_file, var_in)) == True; bool(None) is False.
Truthy(p, var_in) == ~IsNone(p, var_in) /\ p[var_in] # 0

Restrict(f, S) == [k \in S |-> f[k]]

(***************************************************************************)
(* The baseline table: scenes 0..N-1 in sar_time order, each with the date *)
(* read from its scene_id and its perpendicular baseline Bp.  The scene_id *)
(* of a row is modelled by its index.                                      *)
(***************************************************************************)
Len0(t) == Cardinality(DOMAIN t)

Scene(y, jd, bp) == [date |-> [year |-> y, jday |-> jd], Bp |-> bp]

BpValues == {0, 1}

\* Scenes of the LONG study: three years, one day before/inside and one
\* inside/after the windows below.
RichScenes == {Scene(y, jd, bp) : y \in {2019, 2020, 2021}, jd \in {160, 200}, bp \in BpValues}

\* Scenes of the configuration study: three dates, 40 and 326 days apart.
SmallScenes ==
    {Scene(2020, jd, bp) : jd \in {160, 200}, bp \in BpValues}
    \cup {Scene(2021, 160, bp) : bp \in BpValues}

\* Scenes of the whole-year window study: a scene on 1 January after the
\* 365-day year 2019, in a stack that runs from 2018 to 2022.
YearEndScenes ==
    {Scene(2018, 200, 0), Scene(2020, 1, 0), Scene(2021, 1, 1), Scene(2022, 160, 0)}

TablesOver(S) == UNION {[0..(n - 1) -> S] : n \in 1..MaxN}

IsSorted(t) == \A k \in DOMAIN t : (k + 1) \in DOMAIN t => DateLE(t[k].date, t[k + 1].date)

SortedTables == {t \in TablesOver(RichScenes) : IsSorted(t)}

SmallTables == TablesOver(SmallScenes)

YearEndTables == {t \in TablesOver(YearEndScenes) : IsSorted(t)}

\* Five scenes 12 days apart from 2020-01-01 with baselines 10, -5, 3, -8, 0.
ScenarioTable ==
    [k \in 0..4 |-> Scene(2020, 1 + 12 * k, <<10, -5, 3, -8, 0>>[k + 1])]

\* The parameter file get_prm_file writes, with the three baseline limits given.
TemplatePRM(bp, dtmin, dtmax) ==
    [SEQ |-> 1, SKIP |-> 1, LONG |-> 1, LONG_START |-> 150, LONG_END |-> 270,
     BL_MODE |-> 1, BP_MAX |-> bp, DT_MIN |-> dtmin, DT_MAX |-> dtmax,
     DATE_MASTER |-> AsStr]

Limits == {<<2, 0, 366>>, <<1, 0, 40>>, <<2, 41, 400>>}

Windows == {<<150, 270>>, <<170, 270>>, <<150, 180>>}

\* Every combination of the strategies, with DATE_MASTER left as written.
StrategyPRMs ==
    {[TemplatePRM(l[1], l[2], l[3]) EXCEPT !.SEQ = s, !.SKIP = k, !.LONG = g, !.BL_MODE = m] :
        s \in {0, 1}, k \in {0, 1}, g \in {0, 1}, m \in {0, 1, 2}, l \in Limits}

\* LONG alone, over each window, unfiltered and filtered.
LongPRMs ==
    {[TemplatePRM(1, 0, 366) EXCEPT !.SEQ = 0, !.SKIP = 0, !.LONG_START = w[1],
                                    !.LONG_END = w[2], !.BL_MODE = m] :
        w \in Windows, m \in {0, 2}}

\* LONG alone over the whole year, days 1 to 366.
WholeYearPRM ==
    [TemplatePRM(1, 0, 366) EXCEPT !.SEQ = 0, !.SKIP = 0, !.LONG_START = 1,
                                   !.LONG_END = 366, !.BL_MODE = 0]

\* A requested master: a date, a number, or no DATE_MASTER line at all.
MasterPRMs ==
    {[TemplatePRM(2, 0, 400) EXCEPT !.SKIP = 0, !.LONG = 0, !.BL_MODE = 0, !.DATE_MASTER = dm] :
        dm \in {AsDate(s.date) : s \in SmallScenes} \cup {AsNum(0), AsNum(2)}}
    \cup {Restrict(TemplatePRM(2, 0, 400), NumKeys)}

\* The template with one numeric key left out.
MissingPRMs ==
    {Restrict(TemplatePRM(2, 0, 400), (NumKeys \ {k}) \cup {"DATE_MASTER"}) : k \in NumKeys}

ScenarioPRM ==
    [TemplatePRM(2, 0, 400) EXCEPT !.SKIP = 0, !.LONG = 0, !.BL_MODE = 0]

\* A file written for BL_MODE = 0 that leaves one baseline limit out.
UnlimitedPRMs ==
    {Restrict([TemplatePRM(2, 0, 400) EXCEPT !.BL_MODE = 0],
              (NumKeys \ {k}) \cup {"DATE_MASTER"}) : k \in {"BP_MAX", "DT_MIN", "DT_MAX"}}

Inputs ==
    (SortedTables \X LongPRMs)
    \cup (SmallTables \X (StrategyPRMs \cup MasterPRMs \cup MissingPRMs \cup UnlimitedPRMs))
    \cup (YearEndTables \X {WholeYearPRM})
    \cup {<<ScenarioTable, ScenarioPRM>>}


(***************************************************************************)
(* Supermaster (lines 254-277).                                            *)
(***************************************************************************)
RECURSIVE SumBp(_, _)
SumBp(t, n) == IF n = 0 THEN 0 ELSE t[n - 1].Bp + SumBp(t, n - 1)

\* abs(Bp - Bp_mean) of row k, times N (the mean is SumBp / N).
Dev(t, k) == Abs(Len0(t) * t[k].Bp - SumBp(t, Len0(t)))

\* Rows of baseline_table[abs(Bp - Bp_mean) == min(abs(Bp - Bp_mean))]
ClosestRows(t) == {k \in DOMAIN t : \A m \in DOMAIN t : Dev(t, k) <= Dev(t, m)}

\* Rows of baseline_table[baseline_table['date'] == DATE_MASTER]
MatchRows(t, dm) == {k \in DOMAIN t : dm.kind = "date" /\ t[k].date = dm.date}

\* DATE_MASTER in baseline_table['date']: membership in a Series is membership
\* in its index 0..N-1, which only a whole number can have.
InSeries(t, p) ==
    /\ ~IsNone(p, "DATE_MASTER")
    /\ p["DATE_MASTER"].kind = "num"
    /\ p["DATE_MASTER"].val \in DOMAIN t

LastRow(rows) == CHOOSE k \in rows : \A m \in rows : m <= k

\* supermaster_tmp[col].values[0]: the first of the selected rows.
FirstRow(rows) == Min(rows)

NoScene == [scene_id |-> -1, date |-> NoDate, Bp |-> 0]

RowDict(t, k) == [scene_id |-> k, date |-> t[k].date, Bp |-> t[k].Bp]

(***************************************************************************)
(* Network matrices (lines 287-428): N x N arrays of 0 and 1.              *)
(***************************************************************************)
Cells(n) == (0..(n - 1)) \X (0..(n - 1))

Zeros(n) == [c \in Cells(n) |-> 0]

SeqAtLeast(i, j) == Abs(j - i) >= 1

\* line 297
SeqCond(i, j) == Abs(j - i) = 1

\* line 310
SkipCond(i, j) == Abs(j - i) = 2

ID_SEQ(n) == [c \in Cells(n) |-> IF SeqCond(c[1], c[2]) THEN 1 ELSE 0]

ID_SKIP(n) == [c \in Cells(n) |-> IF SkipCond(c[1], c[2]) THEN 1 ELSE 0]

\* ---- LONG (lines 329-395) ----
EmptyWindow == [rows |-> {}, is_row |-> FALSE]

\* long_scenes (line 345)
LongScenes(t, ls, le) ==
    {k \in DOMAIN t : t[k].date.jday >= ls /\ t[k].date.jday <= le}

\* lines 349-358
LongStart(t, ls) ==
    [i |-> 0,
     complete |-> FALSE,
     year |-> IF t[0].date.jday < ls THEN t[0].date.year ELSE t[0].date.year + 1,
     long_scenes0 |-> EmptyWindow,
     ID_LONG |-> Zeros(Len0(t))]

\* One pass of the inner while loop (lines 367-381).
WindowSearch(t, ls, le, st) ==
    LET last     == Len0(t) - 1
        start0   == StrpYj(st.year, ls)
        end0     == StrpYj(st.year, le)
        found    == {k \in LongScenes(t, ls, le) :
                        DateLE(start0, t[k].date) /\ DateLE(t[k].date, end0)}
        year1    == st.year + 1
        reached  == year1 = t[last].date.year /\ t[st.i].date.jday <= le
        passed   == year1 > t[last].date.year
        window1  == IF reached
                    THEN [rows |-> {k \in DOMAIN t : t[k].date = t[last].date}, is_row |-> FALSE]
                    ELSE [rows |-> found, is_row |-> FALSE]
        window2  == IF passed THEN [rows |-> {last}, is_row |-> TRUE] ELSE window1
    IN  [st EXCEPT !.year = year1,
                   !.long_scenes0 = window2,
                   !.complete = st.complete \/ reached \/ passed]

\* (abs(Bp[i] - long_scenes0['Bp'])).idxmin(): first row of least difference.
IdxMin(t, i, rows) ==
    Min({k \in rows : \A m \in rows : Abs(t[i].Bp - t[k].Bp) <= Abs(t[i].Bp - t[m].Bp)})

KeepRef(i, j) == i

\* line 393
NextRef(i, j) == j

\* lines 384-393
PickScene(t, st) ==
    LET j == IF st.long_scenes0.is_row
             THEN Len0(t) - 1
             ELSE IdxMin(t, st.i, st.long_scenes0.rows)
    IN  [st EXCEPT !.ID_LONG[<<st.i, j>>] = 1, !.i = NextRef(st.i, j)]

\* The two nested while loops run to their end (lines 361-393).
RECURSIVE LongLoop(_, _, _, _)
LongLoop(t, ls, le, st) ==
    IF st.long_scenes0.rows = {}
    THEN LongLoop(t, ls, le, WindowSearch(t, ls, le, st))
    ELSE LET p == PickScene(t, st)
         IN  IF p.complete THEN p.ID_LONG
             ELSE LongLoop(t, ls, le, [p EXCEPT !.long_scenes0 = EmptyWindow])

ID_LONG(t, ls, le) == LongLoop(t, ls, le, LongStart(t, ls))

\* ---- baseline constraints (lines 398-428) ----
LimitsStrict(dp, dT, bp_max, dt_min, dt_max) ==
    Abs(dp) < bp_max /\ dT >= dt_min /\ dT < dt_max

\* line 416
LimitsMet(dp, dT, bp_max, dt_min, dt_max) ==
    Abs(dp) < bp_max /\ dT >= dt_min /\ dT <= dt_max

ID_BASELINE(t, bp_max, dt_min, dt_max) ==
    [c \in Cells(Len0(t)) |->
        IF LimitsMet(t[c[1]].Bp - t[c[2]].Bp, Days(t[c[1]].date, t[c[2]].date),
                     bp_max, dt_min, dt_max)
        THEN 1 ELSE 0]

Unmasked(id, bl) == id

\* subset_IDs[key] *= ID_BASELINE (line 428)
Masked(id, bl) == [c \in DOMAIN id |-> id[c] * bl[c]]

(***************************************************************************)
(* Output lists (lines 431-470).  subset_IDs, subset_inputs and            *)
(* subset_dates are dictionaries: sequences of entries in insertion order. *)
(***************************************************************************)
Keys(dict) == {dict[k].key : k \in 1..Len(dict)}

Lookup(dict, key) == (CHOOSE e \in {dict[k] : k \in 1..Len(dict)} : e.key = key).val

Entry(key, val) == [key |-> key, val |-> val]

\* dict[key] = val: a new key goes last, an old one keeps its place.
Assign(dict, key, val) ==
    IF key \in Keys(dict)
    THEN [k \in 1..Len(dict) |-> IF dict[k].key = key THEN Entry(key, val) ELSE dict[k]]
    ELSE Append(dict, Entry(key, val))

EmitsAny(t, id, i, j) == id[<<i, j>>] = 1

\* line 446: the cell is on and the initial date is before the repeat date.
Emits(t, id, i, j) == id[<<i, j>>] = 1 /\ DateLT(t[i].date, t[j].date)

\* Row-major scan of one matrix from cell number c on (lines 444-448).
RECURSIVE ScanFrom(_, _, _)
ScanFrom(t, id, c) ==
    LET n == Len0(t)
        i == c \div n
        j == c % n
    IN  IF c >= n * n THEN <<>>
        ELSE (IF Emits(t, id, i, j) THEN << <<i, j>> >> ELSE <<>>) \o ScanFrom(t, id, c + 1)

\* inputs of one key: scene_id[i] + ':' + scene_id[j] for each emitted cell.
PairList(t, id) == ScanFrom(t, id, 0)

\* dates of one key: [date[i], date[j]] for each emitted cell.
DateList(t, pairs) == [k \in 1..Len(pairs) |-> <<t[pairs[k][1]].date, t[pairs[k][2]].date>>]

RECURSIVE ConcatBackwards(_)
ConcatBackwards(dict) ==
    IF dict = <<>> THEN <<>> ELSE ConcatBackwards(Tail(dict)) \o Head(dict).val

\* intf_inputs.extend(...) over the keys in order (lines 455-462).
RECURSIVE Concat(_)
Concat(dict) == IF dict = <<>> THEN <<>> ELSE Head(dict).val \o Concat(Tail(dict))


(***************************************************************************)
(* One run of select_pairs.                                                *)
(***************************************************************************)
VARIABLES
    baseline_table,   \* the table passed in
    prm,              \* the parameter file, as load_PRM reads it
    pc,               \* the block of select_pairs that runs next
    supermaster,      \* the dictionary of the chosen row
    subset_IDs,       \* key -> network matrix
    long,             \* i, year, complete, long_scenes0, ID_LONG of the LONG loop
    subset_inputs,    \* key -> list of pairs
    subset_dates,     \* key -> list of date pairs
    intf_inputs,      \* master list of pairs
    intf_dates        \* master list of date pairs

vars == <<baseline_table, prm, pc, supermaster, subset_IDs, long,
          subset_inputs, subset_dates, intf_inputs, intf_dates>>

N == Len0(baseline_table)

NoLong == [i |-> 0, complete |-> FALSE, year |-> 0,
           long_scenes0 |-> EmptyWindow, ID_LONG |-> <<>>]

Init ==
    /\ \E in \in Inputs : baseline_table = in[1] /\ prm = in[2]
    /\ pc = "supermaster"
    /\ supermaster = NoScene
    /\ subset_IDs = <<>>
    /\ long = NoLong
    /\ subset_inputs = <<>>
    /\ subset_dates = <<>>
    /\ intf_inputs = <<>>
    /\ intf_dates = <<>>

\* Lines 254-277.  A number that is a row label passes the membership test
\* and then matches no date: .values[0] of the empty selection raises.
SelectSupermaster ==
    /\ pc = "supermaster"
    /\ LET rows == IF InSeries(baseline_table, prm)
                   THEN MatchRows(baseline_table, prm["DATE_MASTER"])
                   ELSE ClosestRows(baseline_table)
       IN  IF rows = {}
           THEN pc' = "raised" /\ UNCHANGED supermaster
           ELSE /\ supermaster' = RowDict(baseline_table, FirstRow(rows))
                /\ pc' = "seq"
    /\ UNCHANGED <<baseline_table, prm, subset_IDs, long,
                   subset_inputs, subset_dates, intf_inputs, intf_dates>>

\* Lines 287-300.  bool(None) is False.
MakeSEQ ==
    /\ pc = "seq"
    /\ subset_IDs' = IF Truthy(prm, "SEQ")
                     THEN Assign(subset_IDs, "SEQ", ID_SEQ(N))
                     ELSE subset_IDs
    /\ pc' = "skip"
    /\ UNCHANGED <<baseline_table, prm, supermaster, long,
                   subset_inputs, subset_dates, intf_inputs, intf_dates>>

\* Lines 302-313.  None > 0 raises TypeError.
MakeSKIP ==
    /\ pc = "skip"
    /\ IF IsNone(prm, "SKIP")
       THEN pc' = "raised" /\ UNCHANGED subset_IDs
       ELSE /\ subset_IDs' = IF prm["SKIP"] > 0
                             THEN Assign(subset_IDs, "SKIP", ID_SKIP(N))
                             ELSE subset_IDs
            /\ pc' = "long"
    /\ UNCHANGED <<baseline_table, prm, supermaster, long,
                   subset_inputs, subset_dates, intf_inputs, intf_dates>>

\* Lines 329-358.  The defaults loop changes nothing, so a missing LONG_START
\* or LONG_END reaches the comparison of line 345 as None and raises.
LongInit ==
    /\ pc = "long"
    /\ IF ~Truthy(prm, "LONG")
       THEN pc' = "baseline" /\ UNCHANGED long
       ELSE IF IsNone(prm, "LONG_START") \/ IsNone(prm, "LONG_END")
            THEN pc' = "raised" /\ UNCHANGED long
            ELSE /\ long' = LongStart(baseline_table, prm["LONG_START"])
                 /\ pc' = "long_search"
    /\ UNCHANGED <<baseline_table, prm, supermaster, subset_IDs,
                   subset_inputs, subset_dates, intf_inputs, intf_dates>>

\* One pass of the inner while loop (lines 366-381); it repeats while the
\* window is empty.
LongSearch ==
    /\ pc = "long_search"
    /\ long' = WindowSearch(baseline_table, prm["LONG_START"], prm["LONG_END"], long)
    /\ pc' = IF long'.long_scenes0.rows = {} THEN "long_search" ELSE "long_pick"
    /\ UNCHANGED <<baseline_table, prm, supermaster, subset_IDs,
                   subset_inputs, subset_dates, intf_inputs, intf_dates>>

\* Lines 383-395, and line 364 when the outer loop goes round again.
LongPick ==
    /\ pc = "long_pick"
    /\ LET p == PickScene(baseline_table, long)
       IN  IF p.complete
           THEN /\ long' = p
                /\ subset_IDs' = Assign(subset_IDs, "LONG", p.ID_LONG)
                /\ pc' = "baseline"
           ELSE /\ long' = [p EXCEPT !.long_scenes0 = EmptyWindow]
                /\ UNCHANGED subset_IDs
                /\ pc' = "long_search"
    /\ UNCHANGED <<baseline_table, prm, supermaster,
                   subset_inputs, subset_dates, intf_inputs, intf_dates>>

\* Lines 397-428.  None > 0 raises, and so does '{:.0f}'.format(None).
Baseline ==
    /\ pc = "baseline"
    /\ IF IsNone(prm, "BL_MODE")
       THEN pc' = "raised" /\ UNCHANGED subset_IDs
       ELSE IF prm["BL_MODE"] <= 0
            THEN pc' = "lists" /\ UNCHANGED subset_IDs
            ELSE IF IsNone(prm, "BP_MAX") \/ IsNone(prm, "DT_MIN") \/ IsNone(prm, "DT_MAX")
                 THEN pc' = "raised" /\ UNCHANGED subset_IDs
                 ELSE LET bl == ID_BASELINE(baseline_table, prm["BP_MAX"],
                                            prm["DT_MIN"], prm["DT_MAX"])
                      IN  /\ subset_IDs' =
                                IF prm["BL_MODE"] = 1
                                THEN Assign(subset_IDs, "BL", bl)
                                ELSE IF prm["BL_MODE"] = 2
                                     THEN [k \in 1..Len(subset_IDs) |->
                                             Entry(subset_IDs[k].key, Masked(subset_IDs[k].val, bl))]
                                     ELSE subset_IDs
                          /\ pc' = "lists"
    /\ UNCHANGED <<baseline_table, prm, supermaster, long,
                   subset_inputs, subset_dates, intf_inputs, intf_dates>>

\* Lines 431-451.
MakeLists ==
    /\ pc = "lists"
    /\ subset_inputs' = [k \in 1..Len(subset_IDs) |->
                            Entry(subset_IDs[k].key, PairList(baseline_table, subset_IDs[k].val))]
    /\ subset_dates' = [k \in 1..Len(subset_IDs) |->
                            Entry(subset_IDs[k].key,
                                  DateList(baseline_table, PairList(baseline_table, subset_IDs[k].val)))]
    /\ pc' = "aggregate"
    /\ UNCHANGED <<baseline_table, prm, supermaster, subset_IDs, long,
                   intf_inputs, intf_dates>>

\* Lines 454-470.
Aggregate ==
    /\ pc = "aggregate"
    /\ intf_inputs' = Concat(subset_inputs)
    /\ intf_dates' = Concat(subset_dates)
    /\ pc' = "done"
    /\ UNCHANGED <<baseline_table, prm, supermaster, subset_IDs, long,
                   subset_inputs, subset_dates>>

Next ==
    \/ SelectSupermaster
    \/ MakeSEQ
    \/ MakeSKIP
    \/ LongInit
    \/ LongSearch
    \/ LongPick
    \/ Baseline
    \/ MakeLists
    \/ Aggregate

Spec == Init /\ [][Next]_vars

\* select_pairs is one sequential call: a block that can run does run.
FairSpec == Spec /\ WF_vars(Next)

TypeOK ==
    /\ pc \in {"supermaster", "seq", "skip", "long", "long_search", "long_pick",
               "baseline", "lists", "aggregate", "done", "raised"}
    /\ Keys(subset_IDs) \subseteq {"SEQ", "SKIP", "LONG", "BL"}


(***************************************************************************)
(* The whole of lines 287-451 as one function of a table and a parameter   *)
(* file that has every numeric key: the reference the runs are compared    *)
(* with.                                                                   *)
(***************************************************************************)
SubsetIDsOf(t, p) ==
    LET n  == Len0(t)
        d1 == IF Truthy(p, "SEQ") THEN <<Entry("SEQ", ID_SEQ(n))>> ELSE <<>>
        d2 == IF p["SKIP"] > 0 THEN Append(d1, Entry("SKIP", ID_SKIP(n))) ELSE d1
        d3 == IF Truthy(p, "LONG")
              THEN Append(d2, Entry("LONG", ID_LONG(t, p["LONG_START"], p["LONG_END"])))
              ELSE d2
        bl == ID_BASELINE(t, p["BP_MAX"], p["DT_MIN"], p["DT_MAX"])
    IN  IF p["BL_MODE"] = 1 THEN Append(d3, Entry("BL", bl))
        ELSE IF p["BL_MODE"] = 2
             THEN [k \in 1..Len(d3) |-> Entry(d3[k].key, Masked(d3[k].val, bl))]
             ELSE d3

SubsetInputsOf(t, p) ==
    LET ids == SubsetIDsOf(t, p)
    IN  [k \in 1..Len(ids) |-> Entry(ids[k].key, PairList(t, ids[k].val))]

\* Whether the call returns: no comparison or format of None (lines 303, 345,
\* 398-402) and no empty supermaster selection (line 277).
Returns(t, p) ==
    /\ (IF InSeries(t, p) THEN MatchRows(t, p["DATE_MASTER"]) ELSE ClosestRows(t)) # {}
    /\ ~IsNone(p, "SKIP")
    /\ Truthy(p, "LONG") => ~IsNone(p, "LONG_START") /\ ~IsNone(p, "LONG_END")
    /\ ~IsNone(p, "BL_MODE")
    /\ p["BL_MODE"] > 0 => ~IsNone(p, "BP_MAX") /\ ~IsNone(p, "DT_MIN") /\ ~IsNone(p, "DT_MAX")

\* The defaults the code prints for unspecified keys (lines 242, 339) and the
\* falsy default of the switches.
DefaultOf(key) ==
    IF key = "LONG_START" THEN 150 ELSE IF key = "LONG_END" THEN 270 ELSE 0

WithDefaults(p) ==
    [k \in DOMAIN p \cup NumKeys |-> IF k \in DOMAIN p THEN p[k] ELSE DefaultOf(k)]

(***************************************************************************)
(* Vocabulary of the properties.                                           *)
(***************************************************************************)
Range(s) == {s[k] : k \in 1..Len(s)}

StrictDates(t) ==
    \A k \in DOMAIN t : (k + 1) \in DOMAIN t => DateLT(t[k].date, t[k + 1].date)

On(id) == {c \in DOMAIN id : id[c] = 1}

OutDeg(E, k) == Cardinality({c \in E : c[1] = k})

InDeg(E, k) == Cardinality({c \in E : c[2] = k})

\* E is one path from scene 0 to scene n-1 whose edges all go forward.
IsChain(E, n) ==
    /\ \A c \in E : c[1] < c[2]
    /\ OutDeg(E, 0) = 1 /\ InDeg(E, 0) = 0
    /\ InDeg(E, n - 1) = 1 /\ OutDeg(E, n - 1) = 0
    /\ \A k \in 1..(n - 2) : InDeg(E, k) = OutDeg(E, k) /\ InDeg(E, k) <= 1

LongDone == pc = "baseline" /\ long.complete

LongOn == Truthy(prm, "LONG")

Requested == IF IsNone(prm, "DATE_MASTER") THEN AsStr ELSE prm["DATE_MASTER"]

\* The baseline and temporal limits of the parameter file hold for the pair.
WithinPRM(pr) ==
    LET a == baseline_table[pr[1]]
        b == baseline_table[pr[2]]
    IN  /\ Abs(a.Bp - b.Bp) < prm["BP_MAX"]
        /\ Days(a.date, b.date) >= prm["DT_MIN"]
        /\ Days(a.date, b.date) <= prm["DT_MAX"]

(***************************************************************************)
(* C1: with LONG enabled the window search ends for every table and every  *)
(* window: the search year grows by one on every pass of the inner loop,   *)
(* the run leaves the loop, and it leaves it with the table's last scene   *)
(* forced as the final target.                                             *)
(***************************************************************************)
\* C1, the search year strictly advances on every inner iteration.
C1_YearAdvances == [][pc = "long_search" => long'.year = long.year + 1]_vars

\* C1, every run ends: select_pairs returns or raises.
C1_Terminates == <>(pc \in {"done", "raised"})

\* C1, the search year never runs more than one year past the later of the
\* first search year and the last scene's year.
C1_YearBounded ==
    pc \in {"long_search", "long_pick"} =>
        \/ long.year <= baseline_table[N - 1].date.year + 1
        \/ long.year <= baseline_table[0].date.year + 2

\* C1, when the loop completes the final target is the last scene of the table.
C1_FinalTargetIsLastScene == LongDone => long.i = N - 1

(***************************************************************************)
(* C2: on a table of N >= 2 scenes with strictly increasing dates, the     *)
(* cells set in the LONG matrix when the strategy completes are one chain  *)
(* of forward edges from scene 0 to scene N-1.                             *)
(***************************************************************************)
C2_LongIsChain ==
    (LongDone /\ N >= 2 /\ StrictDates(baseline_table)) =>
        IsChain(On(Lookup(subset_IDs, "LONG")), N)

\* C2 holds of every window that ends by day 365: the matrix is a chain
\* unless day 366 of a 365-day year carries the window into 1 January.
C2_ChainWithinYear ==
    (LongDone /\ N >= 2 /\ StrictDates(baseline_table) /\ prm["LONG_END"] <= 365) =>
        IsChain(On(Lookup(subset_IDs, "LONG")), N)

C2_TwoEdgeChain ==
    /\ LongDone /\ N >= 3 /\ StrictDates(baseline_table) /\ prm["LONG_END"] <= 365
    /\ Cardinality(On(Lookup(subset_IDs, "LONG"))) = 2

(***************************************************************************)
(* C3: three scenes in three successive years, all strictly inside the     *)
(* window [150,270], scene 0 on Julian day 160: the LONG chain is the two  *)
(* edges 0 -> 1 -> 2.                                                      *)
(***************************************************************************)
C3_Table ==
    /\ N = 3
    /\ baseline_table[0].date.jday = 160
    /\ \A k \in 0..2 : /\ baseline_table[k].date.year = baseline_table[0].date.year + k
                       /\ baseline_table[k].date.jday > 150
                       /\ baseline_table[k].date.jday < 270
    /\ LongOn /\ prm["LONG_START"] = 150 /\ prm["LONG_END"] = 270

C3_TwoEdges ==
    (LongDone /\ C3_Table) => On(Lookup(subset_IDs, "LONG")) = {<<0, 1>>, <<1, 2>>}

(***************************************************************************)
(* C4: a DATE_MASTER that is the date of a scene of the table makes that   *)
(* scene the supermaster.                                                  *)
(***************************************************************************)
C4_RequestedMasterChosen ==
    (pc = "done" /\ MatchRows(baseline_table, Requested) # {}) =>
        supermaster.date = Requested.date

(***************************************************************************)
(* C5: when no requested date matches a scene, the supermaster is a scene  *)
(* of least |Bp - mean Bp|, the lowest-indexed of those; baselines         *)
(* 10, -5, 3, -8, 0 give the scene of baseline 0.                          *)
(***************************************************************************)
\* |Bp[k] - mean| <= |Bp[m] - mean|, with both sides multiplied by N.
Closer(k, m) ==
    Abs(N * baseline_table[k].Bp - SumBp(baseline_table, N))
        <= Abs(N * baseline_table[m].Bp - SumBp(baseline_table, N))

C5_MasterClosestToMean ==
    (pc = "done" /\ MatchRows(baseline_table, Requested) = {}) =>
        LET s == supermaster.scene_id
        IN  /\ s \in DOMAIN baseline_table
            /\ supermaster = RowDict(baseline_table, s)
            /\ \A m \in DOMAIN baseline_table : Closer(s, m)
            /\ \A m \in DOMAIN baseline_table : m < s => ~Closer(m, s)
            /\ baseline_table = ScenarioTable => supermaster.Bp = 0

C5_Witness ==
    /\ pc = "done"
    /\ Requested.kind = "date"
    /\ MatchRows(baseline_table, Requested) = {}
    /\ \E m \in DOMAIN baseline_table : m > supermaster.scene_id /\ Closer(m, supermaster.scene_id)

(***************************************************************************)
(* C6: a parameter file that lacks some of the nine numeric keys is never  *)
(* fatal: the run returns, and returns what it returns when the defaults   *)
(* of the absent keys are written in the file.                             *)
(***************************************************************************)
C6_MissingKeyNotFatal ==
    (NumKeys \ DOMAIN prm # {} /\ ~InSeries(baseline_table, prm)) =>
        /\ pc # "raised"
        /\ pc = "done" =>
              subset_inputs = SubsetInputsOf(baseline_table, WithDefaults(prm))

(***************************************************************************)
(* C7: with BL_MODE = 2 the output of every active strategy is its         *)
(* BL_MODE = 0 output with the pairs that break a limit removed, and there *)
(* is no BL output.                                                        *)
(***************************************************************************)
C7_FilterIsIntersection ==
    (pc = "done" /\ prm["BL_MODE"] = 2) =>
        LET unf == SubsetInputsOf(baseline_table, [prm EXCEPT !["BL_MODE"] = 0])
        IN  /\ "BL" \notin Keys(subset_inputs)
            /\ Len(subset_inputs) = Len(unf)
            /\ \A k \in 1..Len(unf) :
                  /\ subset_inputs[k].key = unf[k].key
                  /\ subset_inputs[k].val = SelectSeq(unf[k].val, WithinPRM)

C7_Witness ==
    /\ pc = "done" /\ prm["BL_MODE"] = 2
    /\ LET unf == SubsetInputsOf(baseline_table, [prm EXCEPT !["BL_MODE"] = 0])
       IN  \E k \in 1..Len(unf) :
              /\ unf[k].key = "LONG"
              /\ Len(subset_inputs[k].val) > 0
              /\ Len(subset_inputs[k].val) < Len(unf[k].val)

(***************************************************************************)
(* C8: in every strategy's output every pair has its first date strictly   *)
(* before its second, and no two entries are the same two scenes.          *)
(***************************************************************************)
C8_PairsOrderedAndUnique ==
    pc = "done" =>
        \A e \in 1..Len(subset_inputs) :
            LET inputs == subset_inputs[e].val
                dates  == subset_dates[e].val
            IN  /\ Len(dates) = Len(inputs)
                /\ \A k \in 1..Len(inputs) :
                      /\ dates[k] = <<baseline_table[inputs[k][1]].date,
                                      baseline_table[inputs[k][2]].date>>
                      /\ DateLT(dates[k][1], dates[k][2])
                /\ \A k, m \in 1..Len(inputs) :
                      k # m => {inputs[k][1], inputs[k][2]} # {inputs[m][1], inputs[m][2]}

C8_Witness ==
    /\ pc = "done"
    /\ \E a, b \in DOMAIN baseline_table :
          a < b /\ DateLT(baseline_table[b].date, baseline_table[a].date)
    /\ \E a, b \in DOMAIN baseline_table :
          a # b /\ baseline_table[a].date = baseline_table[b].date
    /\ \E e \in 1..Len(subset_inputs) : Len(subset_inputs[e].val) >= 2

(***************************************************************************)
(* C9: with SEQ on and BL_MODE = 0 the SEQ output is the N-1 pairs         *)
(* (i, i+1), each once, and with SKIP = 0 and LONG = 0 there is no other   *)
(* output; five scenes 12 days apart give 4 pairs.                         *)
(***************************************************************************)
Unordered(pairs) == {{pr[1], pr[2]} : pr \in Range(pairs)}

Neighbours == {{k, k + 1} : k \in 0..(N - 2)}

DistinctNeighbours(t) ==
    \A k \in DOMAIN t : (k + 1) \in DOMAIN t => t[k].date # t[k + 1].date

C9_Case == pc = "done" /\ N >= 2 /\ Truthy(prm, "SEQ") /\ prm["BL_MODE"] = 0

\* The SEQ list is one entry for each two neighbouring scenes, the earlier
\* date first: (i, i+1) where the dates increase.
C9_Holds ==
    /\ "SEQ" \in Keys(subset_inputs)
    /\ LET seq == Lookup(subset_inputs, "SEQ")
       IN  /\ Len(seq) = N - 1
           /\ Unordered(seq) = Neighbours
           /\ \A k \in 1..Len(seq) :
                 DateLT(baseline_table[seq[k][1]].date, baseline_table[seq[k][2]].date)
           /\ StrictDates(baseline_table) => seq = [k \in 1..(N - 1) |-> <<k - 1, k>>]
           /\ (prm["SKIP"] = 0 /\ ~Truthy(prm, "LONG")) =>
                 Keys(subset_inputs) = {"SEQ"} /\ intf_inputs = seq
           /\ baseline_table = ScenarioTable => Len(seq) = 4

\* C9 as claimed: for every table of N >= 2 scenes.
C9_SeqEveryTable == C9_Case => C9_Holds

\* C9 as amended: for every table of N >= 2 scenes in which neighbouring
\* scenes have different dates.
C9_SeqDistinctNeighbours == (C9_Case /\ DistinctNeighbours(baseline_table)) => C9_Holds

C9_Witness ==
    /\ C9_Case /\ DistinctNeighbours(baseline_table) /\ N >= 3
    /\ ~StrictDates(baseline_table)
    /\ Len(Lookup(subset_inputs, "SEQ")) = N - 1

(***************************************************************************)
(* C10: with BL_MODE = 1 and DT_MIN = 0, when every pair i < j is within   *)
(* BP_MAX and within DT_MAX days, the BL output is every unordered pair of *)
(* scenes once: N(N-1)/2 pairs.                                            *)
(***************************************************************************)
AllPairs == {c \in Cells(N) : c[1] < c[2]}

C10_Case(least) ==
    /\ pc = "done" /\ prm["BL_MODE"] = 1 /\ prm["DT_MIN"] = 0
    /\ \A c \in AllPairs :
          /\ Abs(baseline_table[c[1]].Bp - baseline_table[c[2]].Bp) < prm["BP_MAX"]
          /\ Days(baseline_table[c[1]].date, baseline_table[c[2]].date) >= least
          /\ Days(baseline_table[c[1]].date, baseline_table[c[2]].date) <= prm["DT_MAX"]

C10_Holds ==
    LET bl == Lookup(subset_inputs, "BL")
    IN  /\ 2 * Len(bl) = N * (N - 1)
        /\ \A c \in AllPairs :
              Cardinality({k \in 1..Len(bl) : {bl[k][1], bl[k][2]} = {c[1], c[2]}}) = 1

\* C10 as claimed: 0 <= date(j) - date(i) <= DT_MAX.
C10_CompleteGraph == C10_Case(0) => C10_Holds

\* C10 as amended: 0 < date(j) - date(i) <= DT_MAX.
C10_CompleteGraphDistinctDates == C10_Case(1) => C10_Holds

C10_Witness ==
    /\ C10_Case(1) /\ N >= 3
    /\ \E c \in AllPairs :
          Days(baseline_table[c[1]].date, baseline_table[c[2]].date) = prm["DT_MAX"]

(***************************************************************************)
(* C11: switching BL_MODE from 0 to 1 leaves the SEQ, SKIP and LONG        *)
(* outputs as they are, for every table and every setting of the other     *)
(* keys: the run with BL_MODE = 1 returns the same matrix and the same     *)
(* list under each of these keys, and 'BL' besides.                        *)
(***************************************************************************)
Strategies == {"SEQ", "SKIP", "LONG"}

\* prm with BL_MODE = 1 in place of 0.
Switched == [prm EXCEPT !["BL_MODE"] = 1]

\* The run on the switched file has the outputs of this run under the three
\* strategy keys, in the same order, and 'BL' after them.
SameStrategies ==
    LET ids == SubsetIDsOf(baseline_table, Switched)
        ins == SubsetInputsOf(baseline_table, Switched)
    IN  /\ Keys(ids) = Keys(subset_IDs) \cup {"BL"}
        /\ SelectSeq(ids, LAMBDA e : e.key \in Strategies) = subset_IDs
        /\ SelectSeq(ins, LAMBDA e : e.key \in Strategies) = subset_inputs
        /\ ids[Len(ids)].key = "BL"

C11_Case == pc = "done" /\ prm["BL_MODE"] = 0

\* C11 as claimed: the switched run returns, with the same strategy outputs.
C11_BLAddsOnly ==
    C11_Case => Returns(baseline_table, Switched) /\ SameStrategies

\* What does hold: when the switched run returns, the strategy outputs are
\* the same.
C11_BLAddsOnlyWhenReturns ==
    (C11_Case /\ Returns(baseline_table, Switched)) => SameStrategies

\* A run and the operator Returns agree on whether the call returns.
ReturnsAgrees ==
    /\ pc = "done" => Returns(baseline_table, prm)
    /\ pc = "raised" => ~Returns(baseline_table, prm)

\* The run on the switched file is the run modelled here.
SwitchedAgrees ==
    (pc = "done" /\ prm["BL_MODE"] = 1) =>
        /\ subset_IDs = SubsetIDsOf(baseline_table, prm)
        /\ subset_inputs = SubsetInputsOf(baseline_table, prm)

(***************************************************************************)
(* C12: the master pair list is the SEQ list, then the SKIP list, then the *)
(* LONG list, then the BL list; each of these lists the emitted cells of   *)
(* its matrix row by row; the master length is the sum of their lengths,   *)
(* so a pair that several strategies select is in the master list once for *)
(* each of them; and the master date list holds, at every index, the two   *)
(* dates of the pair at that index of the master pair list.                *)
(***************************************************************************)
ListOf(dict, key) == IF key \in Keys(dict) THEN Lookup(dict, key) ELSE <<>>

InOrder(dict) ==
    ListOf(dict, "SEQ") \o ListOf(dict, "SKIP") \o ListOf(dict, "LONG") \o ListOf(dict, "BL")

\* Cell a is scanned before cell b: i first, then j.
RowMajorBefore(a, b) == a[1] < b[1] \/ (a[1] = b[1] /\ a[2] < b[2])

\* The cells of a matrix that are on and have the earlier date first.
Selected(id) ==
    {c \in Cells(N) : id[c] = 1 /\ DateLT(baseline_table[c[1]].date, baseline_table[c[2]].date)}

Occurrences(list, pr) == Cardinality({k \in 1..Len(list) : list[k] = pr})

C12_MasterIsConcatenation ==
    pc = "done" =>
        /\ intf_inputs = InOrder(subset_inputs)
        /\ intf_dates = InOrder(subset_dates)
        /\ Keys(subset_inputs) = Keys(subset_IDs)
        /\ \A key \in Keys(subset_IDs) :
              LET list == Lookup(subset_inputs, key)
              IN  /\ Range(list) = Selected(Lookup(subset_IDs, key))
                  /\ \A k, m \in 1..Len(list) : k < m => RowMajorBefore(list[k], list[m])
        /\ Len(intf_inputs) =
              Len(ListOf(subset_inputs, "SEQ")) + Len(ListOf(subset_inputs, "SKIP"))
              + Len(ListOf(subset_inputs, "LONG")) + Len(ListOf(subset_inputs, "BL"))
        /\ \A c \in Cells(N) :
              Occurrences(intf_inputs, c) =
                  Cardinality({key \in Keys(subset_inputs) : c \in Range(Lookup(subset_inputs, key))})
        /\ Len(intf_dates) = Len(intf_inputs)
        /\ \A k \in 1..Len(intf_inputs) :
              intf_dates[k] = <<baseline_table[intf_inputs[k][1]].date,
                                baseline_table[intf_inputs[k][2]].date>>

\* All four strategies have pairs, their lists differ, and some pair is in
\* the master list more than once.
C12_Witness ==
    /\ pc = "done"
    /\ Keys(subset_inputs) = {"SEQ", "SKIP", "LONG", "BL"}
    /\ \A key \in Keys(subset_inputs) : Len(Lookup(subset_inputs, key)) > 0
    /\ Lookup(subset_inputs, "SEQ") # Lookup(subset_inputs, "BL")
    /\ \E c \in Cells(N) : Occurrences(intf_inputs, c) >= 2
    /\ \E a, b \in DOMAIN baseline_table :
          a < b /\ DateLT(baseline_table[b].date, baseline_table[a].date)

====
